---- MODULE Spec2Model ----
(***************************************************************************)
(* FindAllHandler (src/tools/web_search/parallel_web_systems/handlers/     *)
(* findall_handler.py): the asynchronous job client of the repository,     *)
(* together with the remote discovery service it talks to.                 *)
(*                                                                         *)
(* One caller drives the handler.  Every handler method is one action,     *)
(* except wait_for_completion, whose loop is cut at its three program      *)
(* points (loop test, after get_findall_status, return) so that the remote *)
(* job can change between two polls.                                       *)
(*                                                                         *)
(* Python values: a dict is a record (a missing key is a missing field),   *)
(* the result of dict.get(k) is an option, None == {} and Some(v) == {v}.  *)
(***************************************************************************)
EXTENDS Integers, Sequences, FiniteSets, TLC

VARIABLES
    jobs,           \* remote service: job id -> job (status "none": not created)
    snowflake,      \* FindAllHandler._snowflake: "None", or a module whose secret
                    \* lookup returns the key ("module") or raises ("raising")
    now,            \* time.time()
    pc,             \* caller position: "idle", inside wait_for_completion ("loop",
                    \* "check"), with the envelope it just returned ("done"), or
                    \* with an exception an entry point let through ("raised")
    findall_id,     \* the findall_id argument of the method called last
    poll_interval,  \* wait_for_completion: argument
    max_wait,       \* wait_for_completion: argument
    start_time,     \* wait_for_completion: local
    status,         \* wait_for_completion: local, the last status envelope
    called,         \* the method called last
    ret,            \* the envelope it returned (none while it runs)
    log,            \* the HTTP requests the current (or last) call has sent
    resp,           \* the outcome of the last HTTP attempt
    slept,          \* the time.sleep calls of the current (or last) wait
    waitExit,       \* which return statement ended the last wait
    sawTerminal,    \* a poll of this wait was answered 200 on a terminal job
    allOk,          \* every HTTP call of this wait was answered 200 with a JSON body
    peer            \* a second caller's wait_for_completion on the same handler:
                    \* its frame (position, arguments, locals, requests sent)

vars == <<jobs, snowflake, now, pc, findall_id, poll_interval, max_wait,
          start_time, status, called, ret, log, resp, slept, waitExit,
          sawTerminal, allOk, peer>>

----------------------------------------------------------------------------
(* Bounds of the model *)

MaxWait == 2
MaxPoll == 1
MaxDur == 2
StartEpoch == 1
MaxCandidates == 1
MaxMatchLimit == 10
MaxEnrich == 1
MaxListed == 3
MaxOver == 1

(* Program constants *)

DEFAULT_MATCH_LIMIT == 10
TIMEOUT == 120

BASE_URL == "https://api.parallel.ai"
BETA_HEADER == "findall-2025-09-15"
DEFAULT_GENERATOR == "core"

----------------------------------------------------------------------------
(* Python values *)

None == {}
Some(v) == {v}
TheValue(o) == CHOOSE v \in o : TRUE

\* d.get(k)
Get(d, k) == IF k \in DOMAIN d THEN Some(d[k]) ELSE None
\* d.get(k, default)
GetOr(d, k, default) == IF k \in DOMAIN d THEN d[k] ELSE default
\* {}
EmptyDict == [k \in {} |-> None]
\* bool(o) of an optional boolean: None and False are falsy
Truthy(o) == o = Some(TRUE)


----------------------------------------------------------------------------
(* The remote discovery service (spec.md section 3): the authoritative     *)
(* copy of every job.  It is the environment of the handler.               *)

JobIds == {"fa_1", "fa_2"}
Terminal == {"completed", "cancelled", "failed"}
MatchStatuses == {"matched", "unmatched"}

NoJob == [status |-> "none", match_limit |-> 0, candidates |-> << >>, enrichments |-> 0]

IsActive(j) == j.status = "running"
IsTerminal(j) == j.status \in Terminal

\* the status object the service reports for a job
StatusObject(j) ==
    [status |-> j.status, is_active |-> IsActive(j),
     metrics |-> [generated_candidates_count |-> Len(j.candidates)]]

\* the JSON body of a 200 answer to a request for job id
ServerBody(op, id) ==
    LET j == jobs[id] IN
    CASE op = "status" ->
           [findall_id |-> id, status |-> StatusObject(j), modified_at |-> "t1"]
      [] op = "result" ->
           [run |-> [status |-> StatusObject(j)], candidates |-> j.candidates]
      [] op = "cancel" ->
           [status |-> StatusObject([j EXCEPT !.status = "cancelled"])]
      [] OTHER -> EmptyDict

\* the job discovers one more candidate
ServerDiscover(id) ==
    /\ IsActive(jobs[id])
    /\ Len(jobs[id].candidates) < MaxCandidates
    /\ \E m \in MatchStatuses :
          jobs' = [jobs EXCEPT ![id].candidates =
                      Append(@, [name |-> "c" \o ToString(Len(@) + 1), match_status |-> m])]
    /\ UNCHANGED <<snowflake, peer, now, pc, findall_id, poll_interval, max_wait,
                   start_time, status, called, ret, log, resp, slept, waitExit,
                   sawTerminal, allOk>>

\* the job ends by itself
ServerFinish(id) ==
    /\ IsActive(jobs[id])
    /\ \E s \in {"completed", "failed"} : jobs' = [jobs EXCEPT ![id].status = s]
    /\ UNCHANGED <<snowflake, peer, now, pc, findall_id, poll_interval, max_wait,
                   start_time, status, called, ret, log, resp, slept, waitExit,
                   sawTerminal, allOk>>

\* another caller cancels the job
OtherCallerCancel(id) ==
    /\ IsActive(jobs[id])
    /\ jobs' = [jobs EXCEPT ![id].status = "cancelled"]
    /\ UNCHANGED <<snowflake, peer, now, pc, findall_id, poll_interval, max_wait,
                   start_time, status, called, ret, log, resp, slept, waitExit,
                   sawTerminal, allOk>>

----------------------------------------------------------------------------
(* The transport: requests.get / requests.post and what they may return.   *)

ConnectionRefused == "Connection refused"
ReadTimedOut == "Read timed out. (read timeout=120)"
JsonError == "Expecting value: line 1 column 1 (char 0)"
NotInitialized == "Snowflake module not initialized"
\* str(e) of an exception raised by the injected secret provider: any text
ProviderErrors == {"Secret api_key does not exist", "Timeout after 2 seconds"}

NoResponse == [kind |-> "none"]
Raised(m) == [kind |-> "exc", msg |-> m]
Response(code, text, json) ==
    [kind |-> "http", status_code |-> code, text |-> text, json |-> json]

\* _get_api_key: the exceptions it may raise
ApiKeyErrors ==
    CASE snowflake = "None" -> {NotInitialized}
      [] snowflake = "raising" -> ProviderErrors
      [] OTHER -> {}
ApiKeyMayReturn == snowflake = "module"

\* what a sent GET for job id may come back with
GetOutcomes(op, id) ==
    {Raised(ConnectionRefused),
     Response(500, "internal error", None),
     Response(200, "<html>", None),
     Response(200, "{}", Some(EmptyDict))}
    \cup (IF jobs[id].status = "none"
          THEN {Response(404, "run not found", None)}
          ELSE {Response(200, "{...}", Some(ServerBody(op, id)))})

\* _get_headers without the beta-feature header
HeadersWithoutBeta ==
    ("x-api-key" :> "api_key secret") @@ ("Content-Type" :> "application/json")

\* _get_headers, with the key the secret provider returned
Headers ==
    ("x-api-key" :> "api_key secret") @@ ("Content-Type" :> "application/json")
        @@ ("parallel-beta" :> BETA_HEADER)

RunsUrl == BASE_URL \o "/v1beta/findall/runs"
RunUrl(id) == RunsUrl \o "/" \o id
Url(op, id) == IF op = "status" THEN RunUrl(id) ELSE RunUrl(id) \o "/" \o op

GetRequest(op, id) ==
    [method |-> "GET", url |-> Url(op, id), headers |-> Headers, timeout |-> TIMEOUT]

Durations == 1..MaxDur

\* HttpGet with the request on the wire before the key lookup fails
HttpGetSendingFirst(base, op, id, r) ==
    \/ /\ r \in {Raised(m) : m \in ApiKeyErrors}
       /\ log' = Append(base, [method |-> "GET", url |-> Url(op, id),
                                headers |-> ("parallel-beta" :> BETA_HEADER),
                                timeout |-> TIMEOUT])
    \/ /\ ApiKeyMayReturn
       /\ r \in GetOutcomes(op, id)
       /\ log' = Append(base, GetRequest(op, id))

\* requests.get(url, headers=self._get_headers(), timeout=...) with outcome r,
\* by a call that has sent the requests of base: either _get_headers raises and
\* nothing is sent, or the request is sent
HttpGet(base, op, id, r) ==
    \/ /\ r \in {Raised(m) : m \in ApiKeyErrors}
       /\ log' = base
    \/ /\ ApiKeyMayReturn
       /\ r \in GetOutcomes(op, id)
       /\ log' = Append(base, GetRequest(op, id))

\* every outcome of a GET
AnyGetOutcome(op, id) == {Raised(m) : m \in ApiKeyErrors} \cup GetOutcomes(op, id)

\* the time a call of get_findall_status or get_findall_results takes inside
\* the wait: a sent request takes at least one tick
Elapse(sent) == IF sent THEN {now + d : d \in Durations} ELSE {now}

----------------------------------------------------------------------------
(* The result envelopes, as the handler methods build them.                *)

NoEnvelope == [unset |-> TRUE]

\* HttpErrorText with the response body left out
HttpErrorTextNoBody(r) == "HTTP " \o ToString(r.status_code)

\* f'HTTP {response.status_code}: {response.text}'
HttpErrorText(r) == "HTTP " \o ToString(r.status_code) \o ": " \o r.text

\* FailureEnvelope with the job id left out of the except return
FailureEnvelopeNoContext(id, r) ==
    IF r.kind = "exc"
    THEN [success |-> FALSE, error |-> r.msg]
    ELSE IF r.status_code = 200
    THEN [success |-> FALSE, error |-> JsonError]
    ELSE [success |-> FALSE, error |-> HttpErrorText(r), findall_id |-> Some(id)]

\* the three failure returns the job methods share
FailureEnvelope(id, r) ==
    IF r.kind = "exc"
    THEN [success |-> FALSE, error |-> r.msg, findall_id |-> Some(id)]
    ELSE IF r.status_code = 200
    THEN \* response.json() raised
         [success |-> FALSE, error |-> JsonError, findall_id |-> Some(id)]
    ELSE [success |-> FALSE, error |-> HttpErrorText(r), findall_id |-> Some(id)]

\* the branch a method takes on outcome r: its 200 branch needs response.json()
TakesSuccessBranch(r) ==
    r.kind = "http" /\ r.status_code = 200 /\ r.json # None

\* StatusEnvelope with the run id taken from the answer
StatusEnvelopeEchoingAnswer(id, r) ==
    IF r.kind = "http" /\ r.status_code = 200 /\ r.json # None
    THEN LET result == TheValue(r.json)
             status_obj == GetOr(result, "status", EmptyDict)
         IN  [success |-> TRUE,
              findall_id |-> Get(result, "findall_id"),
              status |-> Get(status_obj, "status"),
              is_active |-> Get(status_obj, "is_active"),
              metrics |-> GetOr(status_obj, "metrics", EmptyDict),
              modified_at |-> Get(result, "modified_at")]
    ELSE FailureEnvelope(id, r)

\* get_findall_status
StatusEnvelope(id, r) ==
    IF TakesSuccessBranch(r)
    THEN LET result == TheValue(r.json)
             status_obj == GetOr(result, "status", EmptyDict)
         IN  [success |-> TRUE,
              findall_id |-> Some(id),
              status |-> Get(status_obj, "status"),
              is_active |-> Get(status_obj, "is_active"),
              metrics |-> GetOr(status_obj, "metrics", EmptyDict),
              modified_at |-> Get(result, "modified_at")]
    ELSE FailureEnvelope(id, r)

\* c.get('match_status') == 'matched'
IsMatched(c) == Get(c, "match_status") = Some("matched")

\* Matched with the newest match first
MatchedNewestFirst(candidates) ==
    LET kept == SelectSeq(candidates, IsMatched)
    IN  [i \in 1..Len(kept) |-> kept[Len(kept) + 1 - i]]

\* [c for c in candidates if c.get('match_status') == 'matched']
Matched(candidates) == SelectSeq(candidates, IsMatched)

\* ResultsEnvelope with a failed fetch reported as an empty, successful result
ResultsEnvelopePartial(id, r) ==
    IF TakesSuccessBranch(r)
    THEN LET result == TheValue(r.json)
             run == GetOr(result, "run", EmptyDict)
             candidates == GetOr(result, "candidates", << >>)
             matched == Matched(candidates)
         IN  [success |-> TRUE,
              findall_id |-> Some(id),
              status |-> Get(GetOr(run, "status", EmptyDict), "status"),
              is_active |-> Get(GetOr(run, "status", EmptyDict), "is_active"),
              total_candidates |-> Len(candidates),
              matched_count |-> Len(matched),
              candidates |-> matched]
    ELSE [success |-> TRUE,
          findall_id |-> Some(id),
          error |-> FailureEnvelope(id, r).error,
          total_candidates |-> 0,
          matched_count |-> 0,
          candidates |-> << >>]

\* ResultsEnvelope with matched_count counting every candidate
ResultsEnvelopeCountingAll(id, r) ==
    IF TakesSuccessBranch(r)
    THEN LET result == TheValue(r.json)
             run == GetOr(result, "run", EmptyDict)
             candidates == GetOr(result, "candidates", << >>)
             matched == Matched(candidates)
         IN  [success |-> TRUE,
              findall_id |-> Some(id),
              status |-> Get(GetOr(run, "status", EmptyDict), "status"),
              is_active |-> Get(GetOr(run, "status", EmptyDict), "is_active"),
              total_candidates |-> Len(candidates),
              matched_count |-> Len(candidates),
              candidates |-> matched]
    ELSE FailureEnvelope(id, r)

\* get_findall_results
ResultsEnvelope(id, r) ==
    IF TakesSuccessBranch(r)
    THEN LET result == TheValue(r.json)
             run == GetOr(result, "run", EmptyDict)
             candidates == GetOr(result, "candidates", << >>)
             matched == Matched(candidates)
         IN  [success |-> TRUE,
              findall_id |-> Some(id),
              status |-> Get(GetOr(run, "status", EmptyDict), "status"),
              is_active |-> Get(GetOr(run, "status", EmptyDict), "is_active"),
              total_candidates |-> Len(candidates),
              matched_count |-> Len(matched),
              candidates |-> matched]
    ELSE FailureEnvelope(id, r)

\* f'Timeout after {max_wait} seconds'
TimeoutText(w) == "Timeout after " \o ToString(w) \o " seconds"

\* the return after the loop of wait_for_completion
TimeoutEnvelope(id, w) ==
    [success |-> FALSE, error |-> TimeoutText(w), findall_id |-> Some(id)]

----------------------------------------------------------------------------
(* wait_for_completion                                                     *)

WaitArgs == (-1)..MaxWait
PollArgs == 0..MaxPoll

\* LoopCondition with the deadline itself still inside the loop
LoopConditionInclusive == now - start_time <= max_wait

\* LoopCondition of a loop that polls once before it looks at the deadline
LoopConditionAfterFirstPoll == log = << >> \/ now - start_time < max_wait

\* while time.time() - start_time < max_wait
LoopCondition == now - start_time < max_wait

\* bool(status.get('success'))
Succeeded(envelope) == GetOr(envelope, "success", FALSE)
\* SeenActive with completion read off the status name instead of is_active
SeenActiveByStatus(envelope) == GetOr(envelope, "status", None) # Some("completed")

\* SeenActive with only an is_active of False taken as the end of the run
SeenActiveUnlessFalse(envelope) == GetOr(envelope, "is_active", None) # Some(FALSE)

\* bool(status.get('is_active'))
SeenActive(envelope) == Truthy(GetOr(envelope, "is_active", None))

\* the call: start_time = time.time()
WaitCall(id, p, w) ==
    /\ pc = "idle"
    /\ pc' = "loop"
    /\ findall_id' = id
    /\ poll_interval' = p
    /\ max_wait' = w
    /\ now' = StartEpoch
    /\ start_time' = now'
    /\ status' = NoEnvelope
    /\ log' = << >>
    /\ resp' = NoResponse
    /\ slept' = 0
    /\ waitExit' = "none"
    /\ sawTerminal' = FALSE
    /\ allOk' = TRUE
    /\ called' = "wait_for_completion"
    /\ ret' = NoEnvelope
    /\ UNCHANGED <<jobs, snowflake, peer>>

\* the loop test holds: status = self.get_findall_status(findall_id)
WaitPoll ==
    /\ pc = "loop"
    /\ LoopCondition
    /\ \E r \in AnyGetOutcome("status", findall_id) :
          /\ HttpGet(log, "status", findall_id, r)
          /\ now' \in Elapse(log' # log)
          /\ resp' = r
          /\ status' = StatusEnvelope(findall_id, r)
          /\ sawTerminal' = (sawTerminal \/
                               (TakesSuccessBranch(r) /\ IsTerminal(jobs[findall_id])))
          /\ allOk' = (allOk /\ TakesSuccessBranch(r))
    /\ pc' = "check"
    /\ UNCHANGED <<jobs, snowflake, peer, findall_id, poll_interval, max_wait, start_time,
                   ret, called, slept, waitExit>>

\* WaitTimeout with the job cancelled on the way out
WaitTimeoutCancels ==
    /\ pc = "loop"
    /\ ~LoopCondition
    /\ jobs' = [jobs EXCEPT ![findall_id].status =
                   IF @ = "running" THEN "cancelled" ELSE @]
    /\ log' = Append(log, [method |-> "POST", url |-> Url("cancel", findall_id),
                           headers |-> Headers, timeout |-> TIMEOUT])
    /\ ret' = TimeoutEnvelope(findall_id, max_wait)
    /\ waitExit' = "timeout"
    /\ pc' = "done"
    /\ UNCHANGED <<snowflake, peer, now, findall_id, poll_interval, max_wait,
                   start_time, status, called, resp, slept, sawTerminal, allOk>>

\* the loop test fails: the return after the loop
WaitTimeout ==
    /\ pc = "loop"
    /\ ~LoopCondition
    /\ ret' = TimeoutEnvelope(findall_id, max_wait)
    /\ waitExit' = "timeout"
    /\ pc' = "done"
    /\ UNCHANGED <<jobs, snowflake, peer, now, findall_id, poll_interval, max_wait,
                   start_time, status, called, log, resp, slept, sawTerminal, allOk>>

\* WaitStatusFailed with the failed poll retried after a sleep
WaitStatusRetried ==
    /\ pc = "check"
    /\ ~Succeeded(status)
    /\ now' = now + poll_interval
    /\ slept' = slept + 1
    /\ pc' = "loop"
    /\ UNCHANGED <<jobs, snowflake, peer, findall_id, poll_interval, max_wait, start_time,
                   status, ret, called, log, resp, waitExit, sawTerminal, allOk>>

\* if not status.get('success'): return status
WaitStatusFailed ==
    /\ pc = "check"
    /\ ~Succeeded(status)
    /\ ret' = status
    /\ waitExit' = "status_failed"
    /\ pc' = "done"
    /\ UNCHANGED <<jobs, snowflake, peer, now, findall_id, poll_interval, max_wait,
                   start_time, status, called, log, resp, slept, sawTerminal, allOk>>

\* WaitGetResults with the sleep taken before the results are fetched
WaitGetResultsAfterSleep ==
    /\ pc = "check"
    /\ Succeeded(status)
    /\ ~SeenActive(status)
    /\ \E r \in AnyGetOutcome("result", findall_id) :
          /\ HttpGet(log, "result", findall_id, r)
          /\ now' \in {t + poll_interval : t \in Elapse(log' # log)}
          /\ resp' = r
          /\ ret' = ResultsEnvelope(findall_id, r)
          /\ allOk' = (allOk /\ TakesSuccessBranch(r))
    /\ slept' = slept + 1
    /\ waitExit' = "results"
    /\ pc' = "done"
    /\ UNCHANGED <<jobs, snowflake, peer, findall_id, poll_interval, max_wait, start_time,
                   status, called, sawTerminal>>

\* if not status.get('is_active'): return self.get_findall_results(findall_id)
WaitGetResults ==
    /\ pc = "check"
    /\ Succeeded(status)
    /\ ~SeenActive(status)
    /\ \E r \in AnyGetOutcome("result", findall_id) :
          /\ HttpGet(log, "result", findall_id, r)
          /\ now' \in Elapse(log' # log)
          /\ resp' = r
          /\ ret' = ResultsEnvelope(findall_id, r)
          /\ allOk' = (allOk /\ TakesSuccessBranch(r))
    /\ waitExit' = "results"
    /\ pc' = "done"
    /\ UNCHANGED <<jobs, snowflake, peer, findall_id, poll_interval, max_wait, start_time,
                   status, called, slept, sawTerminal>>

\* WaitSleep cut short at the deadline
WaitSleepUntilDeadline ==
    /\ pc = "check"
    /\ Succeeded(status)
    /\ SeenActive(status)
    /\ now' = IF now + poll_interval <= start_time + max_wait
              THEN now + poll_interval
              ELSE IF now >= start_time + max_wait THEN now ELSE start_time + max_wait
    /\ slept' = slept + 1
    /\ pc' = "loop"
    /\ UNCHANGED <<jobs, snowflake, peer, findall_id, poll_interval, max_wait, start_time,
                   status, ret, called, log, resp, waitExit, sawTerminal, allOk>>

\* time.sleep(poll_interval)
WaitSleep ==
    /\ pc = "check"
    /\ Succeeded(status)
    /\ SeenActive(status)
    /\ now' = now + poll_interval
    /\ slept' = slept + 1
    /\ pc' = "loop"
    /\ UNCHANGED <<jobs, snowflake, peer, findall_id, poll_interval, max_wait, start_time,
                   status, ret, called, log, resp, waitExit, sawTerminal, allOk>>

----------------------------------------------------------------------------
(* The remote service's answers to POST requests (spec.md sections 3, 4.1) *)

MinMatchLimit == 5
\* the ids the service allocates; any other id names no run
Allocatable == {"fa_1"}
FreeIds == {id \in Allocatable : jobs[id].status = "none"}
NextId == CHOOSE id \in FreeIds : TRUE

NewJob(payload) ==
    [status |-> "running", match_limit |-> payload.match_limit,
     candidates |-> << >>, enrichments |-> 0]

CreatedBody(id, payload) ==
    [findall_id |-> id, status |-> StatusObject(NewJob(payload)),
     generator |-> payload.generator, created_at |-> "t0"]

\* the service's own answer to POST /runs and the jobs it leaves
CreateAnswers(payload) ==
    IF payload.match_limit < MinMatchLimit \/ payload.match_limit > MaxMatchLimit
    THEN {<<Response(422, "match_limit out of range", None), jobs>>}
    ELSE IF FreeIds = {}
    THEN {<<Response(429, "too many runs", None), jobs>>}
    ELSE {<<Response(code, "{...}", Some(CreatedBody(NextId, payload))),
            [jobs EXCEPT ![NextId] = NewJob(payload)]>> : code \in {200, 202}}

\* the service's own answer to POST /runs/{id}/{op} and the jobs it leaves
PostAnswer(op, id, payload) ==
    LET j == jobs[id] IN
    IF j.status = "none" THEN <<Response(404, "run not found", None), jobs>>
    ELSE IF IsTerminal(j) THEN <<Response(409, "run is not active", None), jobs>>
    ELSE CASE op = "cancel" ->
                <<Response(200, "{...}", Some(ServerBody("cancel", id))),
                  [jobs EXCEPT ![id].status = "cancelled"]>>
           [] op = "extend" ->
                IF payload.additional_match_limit <= 0
                   \/ j.match_limit + payload.additional_match_limit > MaxMatchLimit
                THEN <<Response(422, "invalid additional_match_limit", None), jobs>>
                ELSE <<Response(200, "{...}",
                         Some([match_limit |-> j.match_limit + payload.additional_match_limit,
                               objective |-> "objective", entity_type |-> "companies"])),
                       [jobs EXCEPT ![id].match_limit = @ + payload.additional_match_limit]>>
           [] op = "enrich" ->
                IF ~payload.output_schema.valid \/ j.enrichments >= MaxEnrich
                THEN <<Response(422, "invalid output_schema", None), jobs>>
                ELSE <<Response(200, "{...}",
                         Some([enrichments |-> [i \in 1..(j.enrichments + 1) |->
                                                   [processor |-> payload.processor]],
                               objective |-> "objective"])),
                       [jobs EXCEPT ![id].enrichments = @ + 1]>>

\* what a sent POST may come back with, and the jobs it leaves: the service's
\* answer, its effect with the answer lost, or a failure on the way
Faults ==
    {Raised(ConnectionRefused), Response(500, "internal error", None),
     Response(200, "<html>", None), Response(200, "{}", Some(EmptyDict))}

PostOutcomes(answers) ==
    answers \cup {<<Raised(ReadTimedOut), a[2]>> : a \in answers}
            \cup {<<f, jobs>> : f \in Faults}

PostRequest(url, payload) ==
    [method |-> "POST", url |-> url, headers |-> Headers, json |-> payload,
     timeout |-> TIMEOUT]

\* HttpPost with a request that failed sent a second time
HttpPostRetrying(url, payload, answers, o) ==
    \/ /\ o \in {<<Raised(m), jobs>> : m \in ApiKeyErrors}
       /\ log' = << >>
    \/ /\ ApiKeyMayReturn
       /\ o \in PostOutcomes(answers)
       /\ log' = IF TakesSuccessBranch(o[1])
                 THEN <<PostRequest(url, payload)>>
                 ELSE <<PostRequest(url, payload), PostRequest(url, payload)>>

\* requests.post(url, headers=self._get_headers(), ...) with outcome o = <<r, jobs'>>
HttpPost(url, payload, answers, o) ==
    \/ /\ o \in {<<Raised(m), jobs>> : m \in ApiKeyErrors}
       /\ log' = << >>
    \/ /\ ApiKeyMayReturn
       /\ o \in PostOutcomes(answers)
       /\ log' = <<PostRequest(url, payload)>>

----------------------------------------------------------------------------
(* The handler methods called directly.  The frame of the last wait is     *)
(* gone once another method is called; the clock is read by the wait only. *)
(* findall_id holds the findall_id argument of the method called last.     *)

DropWaitFrame(id) ==
    /\ status' = NoEnvelope
    /\ slept' = 0
    /\ sawTerminal' = FALSE
    /\ allOk' = TRUE
    /\ findall_id' = id
    /\ poll_interval' = 0
    /\ max_wait' = 0
    /\ start_time' = 0
    /\ now' = 0
    /\ waitExit' = "none"
    /\ UNCHANGED pc

\* OrDefault with the default taken for an absent argument only
OrDefaultWhenAbsent(o, zero, default) == IF o = None THEN default ELSE TheValue(o)

\* x or default, for an optional argument whose falsy value is zero
OrDefault(o, zero, default) ==
    IF o = None \/ o = Some(zero) THEN default ELSE TheValue(o)

\* bool(x) of an optional list or dict
NonEmpty(o) == o # None /\ o # Some(<< >>)

\* the arguments of the calls of create_findall_run, one call per objective:
\* all optional arguments left out; all of them given; a match_limit of 0;
\* a match_limit above the service's range; every optional argument given
\* and falsy ('', 0, [], {})
Objectives ==
    {"AI startups", "fintech companies", "robotics labs", "biotech firms",
     "climate funds", "saas vendors", "chip makers", "game studios"}
CreateCalls ==
    {[objective |-> "AI startups", entity_type |-> "companies",
      match_conditions |-> <<[name |-> "c1", description |-> "d1"]>>,
      generator |-> None, match_limit |-> None,
      exclude_list |-> None, metadata |-> None],
     [objective |-> "fintech companies", entity_type |-> "companies",
      match_conditions |-> <<[name |-> "c1", description |-> "d1"]>>,
      generator |-> Some("pro"), match_limit |-> Some(MinMatchLimit),
      exclude_list |-> Some(<<"Acme">>), metadata |-> Some([team |-> "gtm"])],
     [objective |-> "robotics labs", entity_type |-> "companies",
      match_conditions |-> <<[name |-> "c1", description |-> "d1"]>>,
      generator |-> None, match_limit |-> Some(0),
      exclude_list |-> None, metadata |-> None],
     [objective |-> "biotech firms", entity_type |-> "companies",
      match_conditions |-> <<[name |-> "c1", description |-> "d1"]>>,
      generator |-> Some("base"), match_limit |-> Some(MaxMatchLimit + 1),
      exclude_list |-> None, metadata |-> None],
     [objective |-> "climate funds", entity_type |-> "companies",
      match_conditions |-> <<[name |-> "c1", description |-> "d1"]>>,
      generator |-> Some(""), match_limit |-> Some(0),
      exclude_list |-> Some(<< >>), metadata |-> Some(<< >>)]}

\* the payload of create_findall_run
CreatePayload(args) ==
    [objective |-> args.objective,
     entity_type |-> args.entity_type,
     match_conditions |-> args.match_conditions,
     generator |-> OrDefault(args.generator, "", DEFAULT_GENERATOR),
     match_limit |-> OrDefault(args.match_limit, 0, DEFAULT_MATCH_LIMIT)]
    @@ (IF NonEmpty(args.exclude_list)
        THEN [exclude_list |-> TheValue(args.exclude_list)] ELSE EmptyDict)
    @@ (IF NonEmpty(args.metadata)
        THEN [metadata |-> TheValue(args.metadata)] ELSE EmptyDict)

\* CreateEnvelope reading the run id from a key the answer does not have
CreateEnvelopeWrongKey(objective, r) ==
    IF r.kind = "exc"
    THEN [success |-> FALSE, error |-> r.msg, objective |-> Some(objective)]
    ELSE IF r.status_code = 200
    THEN IF r.json = None
         THEN [success |-> FALSE, error |-> JsonError, objective |-> Some(objective)]
         ELSE LET result == TheValue(r.json) IN
              [success |-> TRUE,
               findall_id |-> Get(result, "id"),
               status |-> Get(GetOr(result, "status", EmptyDict), "status"),
               is_active |-> Get(GetOr(result, "status", EmptyDict), "is_active"),
               generator |-> Get(result, "generator"),
               created_at |-> Get(result, "created_at")]
    ELSE [success |-> FALSE, error |-> HttpErrorText(r), objective |-> Some(objective)]

\* create_findall_run: its returns
CreateEnvelope(objective, r) ==
    IF r.kind = "exc"
    THEN [success |-> FALSE, error |-> r.msg, objective |-> Some(objective)]
    ELSE IF r.status_code = 200
    THEN IF r.json = None
         THEN [success |-> FALSE, error |-> JsonError, objective |-> Some(objective)]
         ELSE LET result == TheValue(r.json) IN
              [success |-> TRUE,
               findall_id |-> Get(result, "findall_id"),
               status |-> Get(GetOr(result, "status", EmptyDict), "status"),
               is_active |-> Get(GetOr(result, "status", EmptyDict), "is_active"),
               generator |-> Get(result, "generator"),
               created_at |-> Get(result, "created_at")]
    ELSE [success |-> FALSE, error |-> HttpErrorText(r), objective |-> Some(objective)]

\* create_findall_run(**args); it takes no findall_id, so the last one stays
create_findall_run(args) ==
    /\ pc = "idle"
    /\ LET payload == CreatePayload(args) IN
       \E o \in {<<Raised(m), jobs>> : m \in ApiKeyErrors}
                   \cup PostOutcomes(CreateAnswers(payload)) :
          /\ HttpPost(RunsUrl, payload, CreateAnswers(payload), o)
          /\ resp' = o[1]
          /\ jobs' = o[2]
          /\ ret' = CreateEnvelope(args.objective, o[1])
    /\ called' = "create_findall_run"
    /\ DropWaitFrame(findall_id)
    /\ UNCHANGED <<snowflake, peer>>

\* get_findall_status asking with a POST on the run path
get_findall_status_posting(id) ==
    /\ pc = "idle"
    /\ \E r \in AnyGetOutcome("status", id) :
          /\ log' = IF r \in GetOutcomes("status", id) /\ ApiKeyMayReturn
                    THEN <<PostRequest(RunUrl(id), EmptyDict)>> ELSE << >>
          /\ resp' = r
          /\ ret' = StatusEnvelope(id, r)
    /\ called' = "get_findall_status"
    /\ DropWaitFrame(id)
    /\ UNCHANGED <<jobs, snowflake, peer>>

get_findall_status(id) ==
    /\ pc = "idle"
    /\ \E r \in AnyGetOutcome("status", id) :
          /\ HttpGet(<< >>, "status", id, r)
          /\ resp' = r
          /\ ret' = StatusEnvelope(id, r)
    /\ called' = "get_findall_status"
    /\ DropWaitFrame(id)
    /\ UNCHANGED <<jobs, snowflake, peer>>

\* get_findall_results keeping what it returned and adding to it on the next call
get_findall_results_keeping(id) ==
    /\ pc = "idle"
    /\ \E r \in AnyGetOutcome("result", id) :
          /\ HttpGet(<< >>, "result", id, r)
          /\ resp' = r
          /\ ret' = LET e == ResultsEnvelope(id, r)
                         kept == GetOr(ret, "candidates", << >>)
                     IN  IF e.success
                         THEN [e EXCEPT !.candidates = kept \o @,
                                        !.matched_count = Len(kept) + @]
                         ELSE e
    /\ called' = "get_findall_results"
    /\ DropWaitFrame(id)
    /\ UNCHANGED <<jobs, snowflake, peer>>

get_findall_results(id) ==
    /\ pc = "idle"
    /\ \E r \in AnyGetOutcome("result", id) :
          /\ HttpGet(<< >>, "result", id, r)
          /\ resp' = r
          /\ ret' = ResultsEnvelope(id, r)
    /\ called' = "get_findall_results"
    /\ DropWaitFrame(id)
    /\ UNCHANGED <<jobs, snowflake, peer>>

\* ExtendEnvelope reading the new limit from a key the answer does not have
ExtendEnvelopeWrongKey(id, r) ==
    IF TakesSuccessBranch(r)
    THEN LET result == TheValue(r.json) IN
         [success |-> TRUE,
          findall_id |-> Some(id),
          new_match_limit |-> Get(result, "new_match_limit"),
          objective |-> Get(result, "objective"),
          entity_type |-> Get(result, "entity_type")]
    ELSE FailureEnvelope(id, r)

\* extend_findall: its 200 return
ExtendEnvelope(id, r) ==
    IF TakesSuccessBranch(r)
    THEN LET result == TheValue(r.json) IN
         [success |-> TRUE,
          findall_id |-> Some(id),
          new_match_limit |-> Get(result, "match_limit"),
          objective |-> Get(result, "objective"),
          entity_type |-> Get(result, "entity_type")]
    ELSE FailureEnvelope(id, r)

AdditionalLimits == {-5, 0, 5}

extend_findall(id, additional_match_limit) ==
    /\ pc = "idle"
    /\ LET payload == [additional_match_limit |-> additional_match_limit]
           answers == {PostAnswer("extend", id, payload)} IN
       \E o \in {<<Raised(m), jobs>> : m \in ApiKeyErrors} \cup PostOutcomes(answers) :
          /\ HttpPost(Url("extend", id), payload, answers, o)
          /\ resp' = o[1]
          /\ jobs' = o[2]
          /\ ret' = ExtendEnvelope(id, o[1])
    /\ called' = "extend_findall"
    /\ DropWaitFrame(id)
    /\ UNCHANGED <<snowflake, peer>>

\* enrich_findall: its 200 return
EnrichEnvelope(id, r) ==
    IF TakesSuccessBranch(r)
    THEN LET result == TheValue(r.json) IN
         [success |-> TRUE,
          findall_id |-> Some(id),
          enrichments |-> GetOr(result, "enrichments", << >>),
          objective |-> Get(result, "objective")]
    ELSE FailureEnvelope(id, r)

\* an output_schema: one the service accepts and one it does not
OutputSchemas == {[valid |-> TRUE], [valid |-> FALSE]}

\* enrich_findall with the match conditions sent again, emptied
enrich_findall_resending_conditions(id, output_schema, processor) ==
    /\ pc = "idle"
    /\ LET payload == [processor |-> processor, output_schema |-> output_schema,
                       match_conditions |-> << >>]
           answers == {PostAnswer("enrich", id, payload)} IN
       \E o \in {<<Raised(m), jobs>> : m \in ApiKeyErrors} \cup PostOutcomes(answers) :
          /\ HttpPost(Url("enrich", id), payload, answers, o)
          /\ resp' = o[1]
          /\ jobs' = o[2]
          /\ ret' = EnrichEnvelope(id, o[1])
    /\ called' = "enrich_findall"
    /\ DropWaitFrame(id)
    /\ UNCHANGED <<snowflake, peer>>

\* payload = {"processor": processor, "output_schema": output_schema}, the POST
\* on /enrich and the returns
enrich_findall(id, output_schema, processor) ==
    /\ pc = "idle"
    /\ LET payload == [processor |-> processor, output_schema |-> output_schema]
           answers == {PostAnswer("enrich", id, payload)} IN
       \E o \in {<<Raised(m), jobs>> : m \in ApiKeyErrors} \cup PostOutcomes(answers) :
          /\ HttpPost(Url("enrich", id), payload, answers, o)
          /\ resp' = o[1]
          /\ jobs' = o[2]
          /\ ret' = EnrichEnvelope(id, o[1])
    /\ called' = "enrich_findall"
    /\ DropWaitFrame(id)
    /\ UNCHANGED <<snowflake, peer>>

\* CancelEnvelope reporting a run that was already terminal as cancelled
CancelEnvelopeSuppressing(id, r) ==
    IF TakesSuccessBranch(r) \/ (r.kind = "http" /\ r.status_code = 409)
    THEN [success |-> TRUE,
          findall_id |-> Some(id),
          status |-> IF r.json = None THEN None
                     ELSE Get(GetOr(TheValue(r.json), "status", EmptyDict), "status"),
          message |-> "FindAll run cancelled"]
    ELSE FailureEnvelope(id, r)

\* the output_schema_json arguments of the entry point enrich_findall: a str
\* holding a schema, a str holding JSON that is no schema mapping, a str that
\* is not JSON, and values that are not str
SchemaTexts == {"{\"type\": \"object\"}", "[1]", "name, revenue"}
SchemaArguments ==
    {[str |-> t] : t \in SchemaTexts} \cup {[obj |-> o] : o \in OutputSchemas}

\* json.loads(t) returns
IsJson(t) ==
    t \in {"{\"type\": \"object\"}", "[1]", "[{\"name\": \"c1\", \"description\": \"d1\"}]"}
\* json.loads(t), as the schema the service will see
JsonLoads(t) ==
    CASE t = "{\"type\": \"object\"}" -> [valid |-> TRUE]
      [] t = "[1]" -> [valid |-> FALSE]
      [] t = "[{\"name\": \"c1\", \"description\": \"d1\"}]" ->
            <<[name |-> "c1", description |-> "d1"]>>

\* the entry point enrich_findall(findall_id, output_schema_json, processor,
\* _snowflake_module): json.loads is called outside any try
udf_enrich_findall(id, output_schema_json, processor) ==
    IF "str" \in DOMAIN output_schema_json /\ ~IsJson(output_schema_json.str)
    THEN /\ pc = "idle"
         /\ pc' = "raised"
         /\ called' = "enrich_findall"
         /\ ret' = [raised |-> JsonError]
         /\ log' = << >>
         /\ resp' = NoResponse
         /\ findall_id' = id
         /\ status' = NoEnvelope
         /\ slept' = 0
         /\ sawTerminal' = FALSE
         /\ allOk' = TRUE
         /\ poll_interval' = 0
         /\ max_wait' = 0
         /\ start_time' = 0
         /\ now' = 0
         /\ waitExit' = "none"
         /\ UNCHANGED <<jobs, snowflake, peer>>
    ELSE enrich_findall(id,
                        IF "str" \in DOMAIN output_schema_json
                        THEN JsonLoads(output_schema_json.str)
                        ELSE output_schema_json.obj,
                        processor)

\* the calls of the entry point create_findall_run: match_conditions_json
\* as JSON text with generator '' and match_limit 0, as text that is no JSON,
\* and as a list already
UdfCreateCalls ==
    {[objective |-> "saas vendors", entity_type |-> "companies",
      match_conditions_json |->
          [text |-> "[{\"name\": \"c1\", \"description\": \"d1\"}]"],
      generator |-> Some(""), match_limit |-> Some(0)],
     [objective |-> "chip makers", entity_type |-> "companies",
      match_conditions_json |-> [text |-> "c1: d1"],
      generator |-> None, match_limit |-> None],
     [objective |-> "game studios", entity_type |-> "companies",
      match_conditions_json |-> [list |-> <<[name |-> "c1", description |-> "d1"]>>],
      generator |-> Some("pro"), match_limit |-> Some(MinMatchLimit)]}

\* json.loads(match_conditions_json) raises
ConditionsMalformed(u) ==
    "text" \in DOMAIN u.match_conditions_json /\ ~IsJson(u.match_conditions_json.text)

\* the keyword arguments the entry point hands to handler.create_findall_run:
\* exclude_list and metadata are not among them and keep their default None
UdfHandlerArgs(u) ==
    [objective |-> u.objective,
     entity_type |-> u.entity_type,
     match_conditions |-> IF "text" \in DOMAIN u.match_conditions_json
                          THEN JsonLoads(u.match_conditions_json.text)
                          ELSE u.match_conditions_json.list,
     generator |-> u.generator,
     match_limit |-> u.match_limit,
     exclude_list |-> None,
     metadata |-> None]

\* the entry point create_findall_run(objective, entity_type,
\* match_conditions_json, generator, match_limit, _snowflake_module):
\* json.loads is called outside any try
udf_create_findall_run(u) ==
    IF ConditionsMalformed(u)
    THEN /\ pc = "idle"
         /\ pc' = "raised"
         /\ called' = "create_findall_run"
         /\ ret' = [raised |-> JsonError]
         /\ log' = << >>
         /\ resp' = NoResponse
         /\ status' = NoEnvelope
         /\ slept' = 0
         /\ sawTerminal' = FALSE
         /\ allOk' = TRUE
         /\ poll_interval' = 0
         /\ max_wait' = 0
         /\ start_time' = 0
         /\ now' = 0
         /\ waitExit' = "none"
         /\ UNCHANGED <<jobs, snowflake, peer, findall_id>>
    ELSE create_findall_run(UdfHandlerArgs(u))

\* the exception has reached the caller of the entry point: no envelope
RaisedToCaller ==
    /\ pc = "raised"
    /\ pc' = "idle"
    /\ called' = "none"
    /\ ret' = NoEnvelope
    /\ UNCHANGED <<jobs, snowflake, peer, now, findall_id, poll_interval, max_wait,
                   start_time, status, log, resp, slept, waitExit, sawTerminal, allOk>>

\* cancel_findall: its 200 return
CancelEnvelope(id, r) ==
    IF TakesSuccessBranch(r)
    THEN LET result == TheValue(r.json) IN
         [success |-> TRUE,
          findall_id |-> Some(id),
          status |-> Get(GetOr(result, "status", EmptyDict), "status"),
          message |-> "FindAll run cancelled"]
    ELSE FailureEnvelope(id, r)

\* cancel_findall refusing, without a request, a run the handler last saw
\* cancelled
cancel_findall_prechecked(id) ==
    /\ pc = "idle"
    /\ IF called = "cancel_findall" /\ findall_id = id /\ Succeeded(ret)
       THEN /\ log' = << >>
            /\ resp' = NoResponse
            /\ jobs' = jobs
            /\ ret' = FailureEnvelope(id, Raised("run is already cancelled"))
       ELSE LET answers == {PostAnswer("cancel", id, EmptyDict)} IN
            \E o \in {<<Raised(m), jobs>> : m \in ApiKeyErrors} \cup PostOutcomes(answers) :
               /\ HttpPost(Url("cancel", id), EmptyDict, answers, o)
               /\ resp' = o[1]
               /\ jobs' = o[2]
               /\ ret' = CancelEnvelope(id, o[1])
    /\ called' = "cancel_findall"
    /\ DropWaitFrame(id)
    /\ UNCHANGED <<snowflake, peer>>

\* cancel_findall: the POST on /cancel, without a body, and the returns
cancel_findall(id) ==
    /\ pc = "idle"
    /\ LET answers == {PostAnswer("cancel", id, EmptyDict)} IN
       \E o \in {<<Raised(m), jobs>> : m \in ApiKeyErrors} \cup PostOutcomes(answers) :
          /\ HttpPost(Url("cancel", id), EmptyDict, answers, o)
          /\ resp' = o[1]
          /\ jobs' = o[2]
          /\ ret' = CancelEnvelope(id, o[1])
    /\ called' = "cancel_findall"
    /\ DropWaitFrame(id)
    /\ UNCHANGED <<snowflake, peer>>

----------------------------------------------------------------------------
(* The specification *)

----------------------------------------------------------------------------
(* A second caller of wait_for_completion on the same handler, running     *)
(* while the first one runs.  Its arguments and locals are its own frame;  *)
(* the handler (snowflake) and the service (jobs) are the ones above.  The *)
(* frame's now is time.time() as this caller read it last.                 *)

PeerIdle ==
    [pc |-> "idle", findall_id |-> "", poll_interval |-> 0, max_wait |-> 0,
     start_time |-> 0, now |-> 0, status |-> NoEnvelope, ret |-> NoEnvelope,
     log |-> << >>, resp |-> NoResponse, slept |-> 0, waitExit |-> "none"]

\* what the caller and the service hold, untouched by a step of the peer
notPeer == <<jobs, snowflake, now, pc, findall_id, poll_interval, max_wait,
             start_time, status, called, ret, log, resp, slept, waitExit,
             sawTerminal, allOk>>

\* requests.get by the frame f with outcome r after d ticks: the frame's log
\* and clock afterwards (nothing is sent when _get_headers raises)
FrameGet(f, op, id, r, d) ==
    IF r \in {Raised(m) : m \in ApiKeyErrors}
    THEN [f EXCEPT !.resp = r]
    ELSE [f EXCEPT !.resp = r, !.log = Append(@, GetRequest(op, id)), !.now = @ + d]

\* the outcomes of a GET by the peer, each with the time it took
FrameGetOutcomes(op, id) ==
    {<<Raised(m), 0>> : m \in ApiKeyErrors}
        \cup (IF ApiKeyMayReturn THEN GetOutcomes(op, id) \X Durations ELSE {})

\* the call: start_time = time.time()
PeerCall(id, p, w) ==
    /\ peer.pc = "idle"
    /\ peer' = [PeerIdle EXCEPT !.pc = "loop", !.findall_id = id,
                                !.poll_interval = p, !.max_wait = w,
                                !.start_time = StartEpoch, !.now = StartEpoch]
    /\ UNCHANGED notPeer

\* PeerPoll asking for the run the handler was last called for
PeerPollSharedId ==
    /\ peer.pc = "loop"
    /\ peer.now - peer.start_time < peer.max_wait
    /\ \E o \in FrameGetOutcomes("status", findall_id) :
          peer' = [FrameGet(peer, "status", findall_id, o[1], o[2]) EXCEPT
                      !.status = StatusEnvelope(findall_id, o[1]),
                      !.pc = "check"]
    /\ UNCHANGED notPeer

\* the loop test holds: status = self.get_findall_status(findall_id)
PeerPoll ==
    /\ peer.pc = "loop"
    /\ peer.now - peer.start_time < peer.max_wait
    /\ \E o \in FrameGetOutcomes("status", peer.findall_id) :
          peer' = [FrameGet(peer, "status", peer.findall_id, o[1], o[2]) EXCEPT
                      !.status = StatusEnvelope(peer.findall_id, o[1]),
                      !.pc = "check"]
    /\ UNCHANGED notPeer

\* the loop test fails: the return after the loop
PeerTimeout ==
    /\ peer.pc = "loop"
    /\ ~(peer.now - peer.start_time < peer.max_wait)
    /\ peer' = [peer EXCEPT !.ret = TimeoutEnvelope(peer.findall_id, peer.max_wait),
                            !.waitExit = "timeout", !.pc = "done"]
    /\ UNCHANGED notPeer

\* if not status.get('success'): return status
PeerStatusFailed ==
    /\ peer.pc = "check"
    /\ ~Succeeded(peer.status)
    /\ peer' = [peer EXCEPT !.ret = peer.status, !.waitExit = "status_failed",
                            !.pc = "done"]
    /\ UNCHANGED notPeer

\* if not status.get('is_active'): return self.get_findall_results(findall_id)
PeerGetResults ==
    /\ peer.pc = "check"
    /\ Succeeded(peer.status)
    /\ ~SeenActive(peer.status)
    /\ \E o \in FrameGetOutcomes("result", peer.findall_id) :
          peer' = [FrameGet(peer, "result", peer.findall_id, o[1], o[2]) EXCEPT
                      !.ret = ResultsEnvelope(peer.findall_id, o[1]),
                      !.waitExit = "results", !.pc = "done"]
    /\ UNCHANGED notPeer

\* time.sleep(poll_interval)
PeerSleep ==
    /\ peer.pc = "check"
    /\ Succeeded(peer.status)
    /\ SeenActive(peer.status)
    /\ peer' = [peer EXCEPT !.now = @ + peer.poll_interval, !.slept = @ + 1,
                            !.pc = "loop"]
    /\ UNCHANGED notPeer

\* the peer has its envelope and its frame is gone
PeerDone ==
    /\ peer.pc = "done"
    /\ peer' = PeerIdle
    /\ UNCHANGED notPeer

\* FindAllHandler(snowflake_module), no job created, nothing called yet
Init ==
    /\ jobs = [id \in JobIds |-> NoJob]
    /\ snowflake \in {"None", "module", "raising"}
    /\ now = 0
    /\ pc = "idle"
    /\ findall_id = "fa_1"
    /\ poll_interval = 0
    /\ max_wait = 0
    /\ start_time = 0
    /\ status = NoEnvelope
    /\ ret = NoEnvelope
    /\ called = "none"
    /\ log = << >>
    /\ resp = NoResponse
    /\ slept = 0
    /\ waitExit = "none"
    /\ sawTerminal = FALSE
    /\ allOk = TRUE
    /\ peer = PeerIdle

\* result = handler.wait_for_completion(...): the caller has the envelope and
\* the frame of the wait is gone
WaitDone ==
    /\ pc = "done"
    /\ pc' = "idle"
    /\ status' = NoEnvelope
    /\ poll_interval' = 0
    /\ max_wait' = 0
    /\ start_time' = 0
    /\ now' = 0
    /\ slept' = 0
    /\ waitExit' = "none"
    /\ sawTerminal' = FALSE
    /\ allOk' = TRUE
    /\ UNCHANGED <<jobs, snowflake, peer, findall_id, called, ret, log, resp>>

WaitStep ==
    \/ WaitPoll
    \/ WaitTimeout
    \/ WaitStatusFailed
    \/ WaitGetResults
    \/ WaitSleep

Next ==
    \/ \E id \in JobIds : ServerDiscover(id)
    \/ \E id \in JobIds : ServerFinish(id)
    \/ \E id \in JobIds : OtherCallerCancel(id)
    \/ \E args \in CreateCalls : create_findall_run(args)
    \/ \E u \in UdfCreateCalls : udf_create_findall_run(u)
    \/ \E id \in JobIds : get_findall_status(id)
    \/ \E id \in JobIds : get_findall_results(id)
    \/ \E id \in JobIds, n \in AdditionalLimits : extend_findall(id, n)
    \/ \E id \in JobIds, s \in OutputSchemas : enrich_findall(id, s, "core")
    \/ \E id \in JobIds, x \in SchemaArguments : udf_enrich_findall(id, x, "core")
    \/ RaisedToCaller
    \/ \E id \in JobIds : cancel_findall(id)
    \/ \E id \in JobIds, p \in PollArgs, w \in WaitArgs : WaitCall(id, p, w)
    \/ WaitStep
    \/ WaitDone

Spec == Init /\ [][Next]_vars

\* the caller's thread runs: a started wait_for_completion takes its next step
FairSpec == Spec /\ WF_vars(WaitStep)

----------------------------------------------------------------------------
(* Two callers at once: each waits for its own run, both created before    *)
(* and with one match listed, while the service ends the runs.             *)

ConcInit ==
    /\ jobs = [id \in JobIds |->
                  [status |-> "running", match_limit |-> DEFAULT_MATCH_LIMIT,
                   candidates |-> <<[name |-> "c1", match_status |-> "matched"]>>,
                   enrichments |-> 0]]
    /\ snowflake \in {"None", "module", "raising"}
    /\ now = 0
    /\ pc = "idle"
    /\ findall_id = "fa_1"
    /\ poll_interval = 0
    /\ max_wait = 0
    /\ start_time = 0
    /\ status = NoEnvelope
    /\ ret = NoEnvelope
    /\ called = "none"
    /\ log = << >>
    /\ resp = NoResponse
    /\ slept = 0
    /\ waitExit = "none"
    /\ sawTerminal = FALSE
    /\ allOk = TRUE
    /\ peer = PeerIdle

PeerStep ==
    \/ PeerPoll
    \/ PeerTimeout
    \/ PeerStatusFailed
    \/ PeerGetResults
    \/ PeerSleep

ConcNext ==
    \/ \E id \in JobIds : ServerFinish(id)
    \/ \E id \in Allocatable : WaitCall(id, MaxPoll, MaxWait)
    \/ WaitStep
    \/ WaitDone
    \/ \E id \in JobIds \ Allocatable, p \in PollArgs : PeerCall(id, p, MaxWait)
    \/ PeerStep
    \/ PeerDone

ConcSpec == ConcInit /\ [][ConcNext]_vars

----------------------------------------------------------------------------
(* get_findall_results as a function of the candidates the service holds:  *)
(* the handler is called on runs that have listed up to MaxListed          *)
(* candidates, matched, unmatched or not yet evaluated, in any order.      *)

CandidateNamed(i, m) ==
    IF m = "pending"
    THEN [name |-> "c" \o ToString(i)]
    ELSE [name |-> "c" \o ToString(i), match_status |-> m]

Listings ==
    UNION {{[i \in 1..n |-> CandidateNamed(i, ms[i])] :
                ms \in [1..n -> MatchStatuses \cup {"pending"}]} : n \in 0..MaxListed}

FilterInit ==
    /\ \E l \in Listings, s \in {"running", "completed"} :
          jobs = [id \in JobIds |->
                     IF id \in Allocatable
                     THEN [status |-> s, match_limit |-> DEFAULT_MATCH_LIMIT,
                           candidates |-> l, enrichments |-> 0]
                     ELSE NoJob]
    /\ snowflake = "module"
    /\ now = 0
    /\ pc = "idle"
    /\ findall_id = "fa_1"
    /\ poll_interval = 0
    /\ max_wait = 0
    /\ start_time = 0
    /\ status = NoEnvelope
    /\ ret = NoEnvelope
    /\ called = "none"
    /\ log = << >>
    /\ resp = NoResponse
    /\ slept = 0
    /\ waitExit = "none"
    /\ sawTerminal = FALSE
    /\ allOk = TRUE
    /\ peer = PeerIdle

FilterNext == \E id \in JobIds : get_findall_results(id)

FilterSpec == FilterInit /\ [][FilterNext]_vars

----------------------------------------------------------------------------
(* wait_for_completion on a run created with match_limit MinMatchLimit and *)
(* never extended.  The service seeks at most match_limit matches: the run *)
(* has evaluated up to MaxOver candidates more than its limit, of which at *)
(* most match_limit are matched.                                           *)

NumMatched(l) == Cardinality({i \in 1..Len(l) : IsMatched(l[i])})

LimitListings ==
    {l \in UNION {{[i \in 1..n |-> CandidateNamed(i, ms[i])] :
                        ms \in [1..n -> MatchStatuses]} :
                    n \in 0..(MinMatchLimit + MaxOver)} :
        NumMatched(l) <= MinMatchLimit}

LimitInit ==
    /\ \E l \in LimitListings :
          jobs = [id \in JobIds |->
                     IF id \in Allocatable
                     THEN [status |-> "running", match_limit |-> MinMatchLimit,
                           candidates |-> l, enrichments |-> 0]
                     ELSE NoJob]
    /\ snowflake = "module"
    /\ now = 0
    /\ pc = "idle"
    /\ findall_id = "fa_1"
    /\ poll_interval = 0
    /\ max_wait = 0
    /\ start_time = 0
    /\ status = NoEnvelope
    /\ ret = NoEnvelope
    /\ called = "none"
    /\ log = << >>
    /\ resp = NoResponse
    /\ slept = 0
    /\ waitExit = "none"
    /\ sawTerminal = FALSE
    /\ allOk = TRUE
    /\ peer = PeerIdle

LimitNext ==
    \/ \E id \in Allocatable : ServerFinish(id)
    \/ \E id \in Allocatable, p \in PollArgs : WaitCall(id, p, MaxWait)
    \/ WaitStep
    \/ WaitDone

LimitSpec == LimitInit /\ [][LimitNext]_vars

----------------------------------------------------------------------------
(* Properties of wait_for_completion *)

InWait == pc \in {"loop", "check"}
WaitReturned == pc = "done"

\* a step of wait_for_completion, its call included: no other step moves pc
WaitMoves == pc' # pc
\* a step of wait_for_completion after its call
WaitRuns == InWait /\ pc' # pc

\* the requests of log that fetch results
ResultRequests(l) == {i \in 1..Len(l) : l[i].url = Url("result", findall_id)}

\* C1: no step of wait_for_completion changes a remote job, and the requests
\* the wait has sent are all GETs of the status or the result of the job it
\* was given, never a cancel, extend, enrich or create.
C1_WaitLeavesJobUnmodified ==
    [][WaitMoves =>
          /\ jobs' = jobs
          /\ \A i \in 1..Len(log') :
                /\ log'[i].method = "GET"
                /\ log'[i].url \in {Url("status", findall_id'), Url("result", findall_id')}]_vars

\* C1: a wait has returned its timeout after polling, and the job it waited
\* for is still running on the service
C1_Witness ==
    /\ WaitReturned
    /\ waitExit = "timeout"
    /\ Len(log) >= 1
    /\ IsActive(jobs[findall_id])

\* C2: after a successful poll that observes is_active not true, the next
\* step of the wait sends the one results request and returns the envelope of
\* get_findall_results, with no sleep and no status poll in between; results
\* are requested only after such a poll.
C2_ResultsAsSoonAsInactive ==
    [][WaitRuns =>
          /\ (pc = "check" /\ Succeeded(status) /\ ~SeenActive(status)) =>
                /\ pc' = "done"
                /\ waitExit' = "results"
                /\ ret' = ResultsEnvelope(findall_id, resp')
                /\ slept' = slept
                /\ log' = Append(log, GetRequest("result", findall_id))
                /\ now' - now <= MaxDur
          /\ ResultRequests(log') # ResultRequests(log) =>
                /\ pc = "check" /\ Succeeded(status) /\ ~SeenActive(status)
                /\ Cardinality(ResultRequests(log')) = 1]_vars

\* C2: a wait that slept while the job was active and then returned the
\* results it fetched
C2_Witness ==
    /\ WaitReturned
    /\ waitExit = "results"
    /\ slept >= 1
    /\ Cardinality(ResultRequests(log)) = 1
    /\ ret.success

\* C3: after a poll whose envelope is a failure, the next step of the wait
\* returns that envelope, without a sleep, a further poll or a results request.
C3_FailFast ==
    [][(WaitRuns /\ pc = "check" /\ ~status.success) =>
             /\ pc' = "done"
             /\ ret' = status
             /\ ret' = FailureEnvelope(findall_id, resp)
             /\ log' = log
             /\ now' = now
             /\ slept' = slept]_vars

\* C3: a wait that returned a failed poll with time left before max_wait
C3_Witness ==
    /\ WaitReturned
    /\ waitExit = "status_failed"
    /\ ~ret.success
    /\ resp.kind = "http"
    /\ now - start_time < max_wait

\* a returned envelope that is a ResultSet
IsResultSet(envelope) == envelope.success /\ "candidates" \in DOMAIN envelope

\* C4: whenever a wait ends with a failure of get_findall_status or
\* get_findall_results, the envelope it returns is not a timeout envelope of
\* that job, for any max_wait.
C4_TimeoutDistinguishable ==
    (WaitReturned /\ waitExit \in {"status_failed", "results"} /\ ~ret.success) =>
        ret \notin {TimeoutEnvelope(findall_id, w) : w \in WaitArgs}

\* C5, as the specification states it: a wait that has returned has returned
\* a ResultSet, the failed status envelope, or the timeout envelope.
C5_ReturnsResultSetStatusFailureOrTimeout ==
    WaitReturned =>
        \/ IsResultSet(ret)
        \/ ~Succeeded(status) /\ ret = status
        \/ ret = TimeoutEnvelope(findall_id, max_wait)

\* C5, as the code has it: no poll starts once max_wait has elapsed since the
\* call, every wait returns, and what it returns is the envelope of get_findall_results
\* (a ResultSet or the failure of that fetch), the failed status envelope, or
\* the timeout envelope.
C5_BoundedPollingLoop ==
    /\ [][(pc = "loop" /\ pc' = "check") => now - start_time < max_wait]_vars
    /\ [](WaitReturned =>
             \/ waitExit = "results" /\ ret = ResultsEnvelope(findall_id, resp)
             \/ waitExit = "status_failed" /\ ~Succeeded(status) /\ ret = status
             \/ waitExit = "timeout" /\ ret = TimeoutEnvelope(findall_id, max_wait)
                   /\ now - start_time >= max_wait)
    /\ (InWait ~> WaitReturned)

\* C5: a wait for a job that is still running has timed out after two sleeps
C5_Witness ==
    /\ WaitReturned
    /\ waitExit = "timeout"
    /\ slept >= 2
    /\ IsActive(jobs[findall_id])

\* C6: a wait that polled the job after it became terminal, and whose HTTP
\* calls all succeeded, returns the ResultSet of get_findall_results and not
\* the timeout; and once such a poll is made the wait returns.
C6_TerminalJobYieldsResults ==
    /\ []((WaitReturned /\ sawTerminal /\ allOk) =>
             /\ waitExit = "results"
             /\ IsResultSet(ret)
             /\ ret = ResultsEnvelope(findall_id, resp)
             /\ ret.findall_id = Some(findall_id))
    /\ ((InWait /\ sawTerminal) ~> WaitReturned)

\* C6: a wait slept on a running job, the job was then cancelled, and the wait
\* returned its results
C6_Witness ==
    /\ WaitReturned
    /\ sawTerminal /\ allOk
    /\ slept >= 1
    /\ jobs[findall_id].status = "cancelled"
    /\ IsResultSet(ret)

----------------------------------------------------------------------------
(* Properties of the result envelopes *)

Returned == pc \in {"idle", "done"} /\ called # "none"

RemoteRejection == resp.kind = "http" /\ resp.status_code >= 400
TransportFailure == resp.kind = "exc"
MalformedBody == resp.kind = "http" /\ resp.status_code = 200 /\ resp.json = None

\* the envelope made from the last HTTP attempt: the one returned, or inside
\* the wait the status envelope of the last poll
LastEnvelope == IF pc = "check" \/ (WaitReturned /\ waitExit # "results") THEN status ELSE ret

\* C8: an answer with status >= 400 yields a failure whose error is the status
\* code and the body verbatim; an exception of the transport or a malformed
\* JSON body yields a failure whose error is the exception's message.
C8_ErrorsBecomeFailureEnvelopes ==
    (resp.kind # "none" /\ (Returned \/ pc = "check")) =>
        /\ RemoteRejection =>
              /\ ~LastEnvelope.success
              /\ LastEnvelope.error =
                    "HTTP " \o ToString(resp.status_code) \o ": " \o resp.text
        /\ TransportFailure =>
              /\ ~LastEnvelope.success
              /\ LastEnvelope.error = resp.msg
        /\ MalformedBody =>
              /\ ~LastEnvelope.success
              /\ LastEnvelope.error = JsonError
        /\ (Returned /\ ~ret.success /\ ~(WaitReturned /\ waitExit = "timeout")) =>
              ret.error = LastEnvelope.error

\* C8: cancel_findall has returned the rejection of the service
C8_Witness ==
    /\ Returned
    /\ called = "cancel_findall"
    /\ RemoteRejection
    /\ ret.error = "HTTP 409: run is not active"

\* C9: create_findall_run returns an error exactly when the answer is not a
\* 2xx answer or an exception was raised, and an error carries no findall_id.
C9_CreateSucceedsOnEvery2xx ==
    (Returned /\ called = "create_findall_run") =>
        /\ ret.success <=>
              (resp.kind = "http" /\ resp.status_code \in 200..299 /\ resp.json # None)
        /\ ret.success =>
              {"findall_id", "status", "is_active", "generator", "created_at"}
                  \subseteq DOMAIN ret
        /\ ~ret.success => "findall_id" \notin DOMAIN ret

\* C10: no returned envelope has success true together with an error; a
\* success is made from a 200 answer with a JSON body; and a wait whose poll
\* succeeded and whose fetch of the results failed returns a failure.
C10_NoPartialSuccess ==
    Returned =>
        /\ ret.success =>
              /\ "error" \notin DOMAIN ret
              /\ TakesSuccessBranch(resp)
        /\ ~ret.success => "error" \in DOMAIN ret
        /\ (WaitReturned /\ waitExit = "results" /\ ~TakesSuccessBranch(resp)) =>
              /\ Succeeded(status) /\ ~SeenActive(status)
              /\ ~ret.success
              /\ ret = FailureEnvelope(findall_id, resp)

\* C10: a wait saw the job inactive, and the fetch of its results failed
C10_Witness ==
    /\ WaitReturned
    /\ waitExit = "results"
    /\ Succeeded(status)
    /\ status.is_active = Some(FALSE)
    /\ ~ret.success

----------------------------------------------------------------------------
(* Properties of get_findall_results and get_findall_status *)

\* the candidates of the body the last answer carried
RemoteCandidates == GetOr(TheValue(resp.json), "candidates", << >>)
\* the places of the matched ones among them
MatchedAt == {i \in 1..Len(RemoteCandidates) : IsMatched(RemoteCandidates[i])}
\* the k-th of these places
KthMatchedAt(k) ==
    CHOOSE i \in MatchedAt : Cardinality({j \in MatchedAt : j < i}) = k - 1

ResultsReturned == Returned /\ called = "get_findall_results" /\ ret.success

\* C11: a successful get_findall_results returns the remote candidates whose
\* match_status is "matched", all of them and in the remote order;
\* total_candidates counts the remote candidates, matched_count the returned
\* ones, and matched_count <= total_candidates.
C11_ExactlyTheMatchedInOrder ==
    ResultsReturned =>
        /\ ret.total_candidates = Len(RemoteCandidates)
        /\ ret.matched_count = Len(ret.candidates)
        /\ ret.matched_count = Cardinality(MatchedAt)
        /\ ret.matched_count <= ret.total_candidates
        /\ \A k \in 1..Len(ret.candidates) :
              ret.candidates[k] = RemoteCandidates[KthMatchedAt(k)]
        /\ resp.text = "{...}" => RemoteCandidates = jobs[findall_id].candidates

\* C11: of three remote candidates the first and the last are matched, and
\* these two are returned in that order
C11_Witness ==
    /\ ResultsReturned
    /\ ret.total_candidates = 3
    /\ MatchedAt = {1, 3}
    /\ ret.candidates = <<RemoteCandidates[1], RemoteCandidates[3]>>
    /\ ret.matched_count = 2

\* the service's answer to a request for the results of job id, as the job is now
ResultAnswer(id) == Response(200, "{...}", Some(ServerBody("result", id)))

\* a call of the method named, from its call to its return in one step
CallOf(method) ==
    /\ pc = "idle" /\ pc' = "idle"
    /\ called' = method
    /\ <<called, findall_id, ret, log, resp>>' # <<called, findall_id, ret, log, resp>>

\* C12: a call of get_findall_results changes neither a remote job nor the
\* handler, whatever the state of the job; and when the job is as it was when
\* the previous get_findall_results for it was answered, and the service
\* answers again, the call returns the same matched_count and the same
\* candidates, in fact the same envelope: what was returned is what a call
\* made now returns, the matched candidates the run has now.
C12_GetResultsIdempotent ==
    /\ [][(pc = "idle" /\ pc' = "idle" /\ called' = "get_findall_results") =>
             /\ CallOf("get_findall_results") => jobs' = jobs /\ snowflake' = snowflake
             /\ (/\ called = "get_findall_results"
                 /\ findall_id' = findall_id
                 /\ resp = ResultAnswer(findall_id)
                 /\ resp' = ResultAnswer(findall_id)) =>
                    /\ ret'.matched_count = ret.matched_count
                    /\ ret'.candidates = ret.candidates
                    /\ ret' = ret]_vars
    /\ []((ResultsReturned /\ resp = ResultAnswer(findall_id)) =>
             LET again == ResultsEnvelope(findall_id, ResultAnswer(findall_id))
             IN  /\ ret.matched_count = again.matched_count
                 /\ ret.candidates = again.candidates
                 /\ ret.candidates = Matched(jobs[findall_id].candidates))

\* C12: get_findall_results has returned the one matched candidate of a job
\* that is still active, from the answer the service gives for the job as it is
C12_Witness ==
    /\ ResultsReturned
    /\ resp = ResultAnswer(findall_id)
    /\ IsActive(jobs[findall_id])
    /\ ret.matched_count = 1
    /\ ret.is_active = Some(TRUE)

\* C13: a call of get_findall_status, whatever the state of the job, changes
\* neither a remote job nor the handler, and the one request it sends, if the
\* key lookup lets it send one, is a GET on the run path of the job it was given.
C13_GetStatusPureRead ==
    [][CallOf("get_findall_status") =>
          /\ jobs' = jobs
          /\ snowflake' = snowflake
          /\ Len(log') <= 1
          /\ \A i \in 1..Len(log') :
                /\ log'[i].method = "GET"
                /\ log'[i].url = RunUrl(findall_id')
                /\ "json" \notin DOMAIN log'[i]
          /\ ApiKeyMayReturn => log' = <<GetRequest("status", findall_id')>>]_vars

\* C13: get_findall_status has reported a job that completed after listing a
\* candidate and being extended
C13_Witness ==
    /\ Returned
    /\ called = "get_findall_status"
    /\ ret.success
    /\ ret.status = Some("completed")
    /\ ret.is_active = Some(FALSE)
    /\ Len(jobs[findall_id].candidates) = 1
    /\ jobs[findall_id].match_limit > DEFAULT_MATCH_LIMIT \/ jobs[findall_id].enrichments > 0

----------------------------------------------------------------------------
(* Properties of the handler under two callers *)

\* the frame of the first caller
callerFrame == <<now, pc, findall_id, poll_interval, max_wait, start_time, status,
                 called, ret, log, resp, slept, waitExit, sawTerminal, allOk>>

\* the one envelope a wait that left through exit returns, given the run it
\* was called for, its max_wait, its last status envelope and last answer
WaitEnvelope(exit, id, w, st, r) ==
    CASE exit = "results" -> ResultsEnvelope(id, r)
      [] exit = "status_failed" -> st
      [] exit = "timeout" -> TimeoutEnvelope(id, w)
      [] OTHER -> NoEnvelope

\* the requests of l are the polls and the results fetch of run id
OnlyFor(l, id) ==
    \A i \in 1..Len(l) : l[i].url \in {Url("status", id), Url("result", id)}

\* C14: no step changes the handler; a step of one caller leaves the frame of
\* the other untouched; every request of a wait names the run that wait was
\* called for; every status envelope is made from that wait's own last poll,
\* and every returned envelope from its own arguments and answers alone,
\* whatever the other caller did or suffered in between.
C14_CallersShareNoState ==
    /\ [][/\ snowflake' = snowflake
          /\ peer' # peer => callerFrame' = callerFrame
          /\ callerFrame' # callerFrame => peer' = peer]_vars
    /\ [](/\ OnlyFor(log, findall_id)
          /\ OnlyFor(peer.log, peer.findall_id)
          /\ pc = "check" => status = StatusEnvelope(findall_id, resp)
          /\ peer.pc = "check" => peer.status = StatusEnvelope(peer.findall_id, peer.resp)
          /\ pc = "done" =>
                ret = WaitEnvelope(waitExit, findall_id, max_wait, status, resp)
          /\ peer.pc = "done" =>
                peer.ret = WaitEnvelope(peer.waitExit, peer.findall_id, peer.max_wait,
                                        peer.status, peer.resp))

\* C14: the first caller's poll failed and it has returned that failure, while
\* the second caller, having slept, has fetched the results of its own run
C14_Witness ==
    /\ pc = "done" /\ waitExit = "status_failed" /\ resp.kind = "http"
    /\ peer.pc = "done" /\ peer.waitExit = "results"
    /\ peer.slept >= 1
    /\ peer.ret.success
    /\ peer.ret.findall_id = Some("fa_2")
    /\ ret.findall_id = Some("fa_1")
    /\ Len(peer.log) >= 3

----------------------------------------------------------------------------
(* Properties of the job methods *)

\* the methods that take a findall_id, and the paths each one requests
JobMethods ==
    {"get_findall_status", "get_findall_results", "extend_findall", "enrich_findall",
     "cancel_findall", "wait_for_completion"}
RequestOps(method) ==
    CASE method = "get_findall_status" -> {"status"}
      [] method = "get_findall_results" -> {"result"}
      [] method = "extend_findall" -> {"extend"}
      [] method = "enrich_findall" -> {"enrich"}
      [] method = "cancel_findall" -> {"cancel"}
      [] method = "wait_for_completion" -> {"status", "result"}
      [] OTHER -> {}

\* the runs the service holds
Existing(js) == {id \in JobIds : js[id].status # "none"}

\* C15: every request of a method that takes a findall_id is addressed to the
\* run path of that id; every envelope such a method returns, success or
\* failure, and every status envelope inside a wait, carries that id as
\* findall_id; and the set of runs the service holds changes only in a call
\* of create_findall_run.
C15_JobIdentityKept ==
    /\ [](called \in JobMethods =>
             /\ \A i \in 1..Len(log) :
                   log[i].url \in {Url(o, findall_id) : o \in RequestOps(called)}
             /\ Returned =>
                   "findall_id" \in DOMAIN ret /\ ret.findall_id = Some(findall_id)
             /\ pc = "check" => status.findall_id = Some(findall_id))
    /\ [][Existing(jobs') # Existing(jobs) =>
             /\ CallOf("create_findall_run")
             /\ Existing(jobs) \subseteq Existing(jobs')]_vars

\* C15: get_findall_status was answered 200 with a body that names no run, and
\* its success envelope carries the id it was called with
C15_Witness ==
    /\ Returned
    /\ called = "get_findall_status"
    /\ ret.success
    /\ resp.text = "{}"
    /\ ret.findall_id = Some("fa_2")
    /\ Existing(jobs) = {"fa_1"}

\* the service's own answer to the POST the call has sent came back
Delivered(op) ==
    /\ log' # << >>
    /\ resp' = PostAnswer(op, findall_id', log'[1].json)[1]

\* C16: a call of extend_findall for a terminal run leaves its match_limit
\* (and every run) unchanged, and returns the service's rejection as a failure
\* when that is what comes back; for an active run and a positive
\* additional_match_limit that keeps the limit in the service's range, the
\* call the service answers returns a success envelope whose new_match_limit
\* is the limit the run now has, not below the limit it had.
C16_ExtendByJobState ==
    [][CallOf("extend_findall") =>
          LET id == findall_id'
              j == jobs[id]
          IN  /\ IsTerminal(j) =>
                    /\ jobs' = jobs
                    /\ Delivered("extend") =>
                          /\ ~ret'.success
                          /\ ret'.error = "HTTP 409: run is not active"
                          /\ "new_match_limit" \notin DOMAIN ret'
              /\ (/\ IsActive(j)
                  /\ Delivered("extend")
                  /\ log'[1].json.additional_match_limit > 0
                  /\ j.match_limit + log'[1].json.additional_match_limit <= MaxMatchLimit) =>
                    /\ ret'.success
                    /\ ret'.new_match_limit = Some(jobs'[id].match_limit)
                    /\ \A l \in ret'.new_match_limit : l >= j.match_limit
                    /\ jobs'[id].match_limit =
                          j.match_limit + log'[1].json.additional_match_limit]_vars

\* C16: an active run created with limit 5 was extended by 5, and the success
\* envelope reports the limit 10 the run now has
C16_Witness ==
    /\ Returned
    /\ called = "extend_findall"
    /\ ret.success
    /\ ret.new_match_limit = Some(MinMatchLimit + 5)
    /\ jobs[findall_id].match_limit = MinMatchLimit + 5
    /\ IsActive(jobs[findall_id])

\* the service's answer to a request for the status of job id, as the job is now
StatusAnswer(id) == Response(200, "{...}", Some(ServerBody("status", id)))

\* create_findall_run has returned a success made from the service's own answer
Created ==
    /\ Returned
    /\ called = "create_findall_run"
    /\ ret.success
    /\ resp.text = "{...}"

\* C17: the success envelope create_findall_run makes from the service's
\* answer carries a non-empty findall_id, the id of the run the service now
\* holds; and get_findall_status called next on that id, answered by the
\* service while the run is still active, returns a success envelope with
\* is_active true for the same id.
C17_CreateThenStatusActive ==
    /\ [](Created =>
             /\ ret.findall_id # None
             /\ \A id \in ret.findall_id : id # "" /\ id \in Existing(jobs)
             /\ ret.is_active = Some(TRUE))
    /\ [][(/\ Created
           /\ CallOf("get_findall_status")
           /\ ret.findall_id = Some(findall_id')
           /\ IsActive(jobs[findall_id'])
           /\ resp' = StatusAnswer(findall_id')) =>
              /\ ret'.success
              /\ ret'.is_active = Some(TRUE)
              /\ ret'.status = Some("running")
              /\ ret'.findall_id = ret.findall_id]_vars

\* C17: get_findall_status has reported as active a run that is as
\* create_findall_run made it: nothing listed, extended or enriched yet
C17_Witness ==
    /\ Returned
    /\ called = "get_findall_status"
    /\ ret.success
    /\ ret.is_active = Some(TRUE)
    /\ ret.findall_id = Some("fa_1")
    /\ jobs["fa_1"] = NewJob([match_limit |-> MinMatchLimit])

\* cancel_findall has returned a success made from the service's own answer
Cancelled ==
    /\ Returned
    /\ called = "cancel_findall"
    /\ ret.success
    /\ resp.text = "{...}"

\* C18: a cancel_findall the service answers for an active run returns a
\* success with status cancelled, after which the run is not active and
\* get_findall_status, answered by the service, reports is_active false; for
\* a run already terminal it returns a failure whose error is the service's
\* status code and body verbatim, and changes no run; so success tells the
\* two apart; and a terminal run keeps its status in every later step.
C18_CancelOutcomes ==
    /\ [][CallOf("cancel_findall") /\ Delivered("cancel") =>
             LET id == findall_id'
                 j == jobs[id]
             IN  /\ IsActive(j) =>
                       /\ ret'.success
                       /\ "error" \notin DOMAIN ret'
                       /\ ret'.status = Some("cancelled")
                       /\ jobs'[id].status = "cancelled"
                 /\ IsTerminal(j) =>
                       /\ ~ret'.success
                       /\ ret'.error = "HTTP 409: run is not active"
                       /\ ret'.error = "HTTP " \o ToString(resp'.status_code) \o ": "
                                           \o resp'.text
                       /\ jobs' = jobs]_vars
    /\ [](Cancelled =>
             /\ ~IsActive(jobs[findall_id])
             /\ StatusEnvelope(findall_id, StatusAnswer(findall_id)).is_active = Some(FALSE))
    /\ [][(/\ Cancelled
           /\ CallOf("get_findall_status")
           /\ findall_id' = findall_id
           /\ resp' = StatusAnswer(findall_id)) =>
              /\ ret'.success
              /\ ret'.is_active = Some(FALSE)]_vars
    /\ [][\A id \in JobIds :
             IsTerminal(jobs[id]) => jobs'[id].status = jobs[id].status]_vars

\* C18: cancel_findall was called for a run that had completed, and has
\* returned the service's rejection
C18_Witness ==
    /\ Returned
    /\ called = "cancel_findall"
    /\ ~ret.success
    /\ ret.error = "HTTP 409: run is not active"
    /\ ret.findall_id = Some(findall_id)
    /\ jobs[findall_id].status = "completed"

\* the arguments create_findall_run was called with, known by the objective
CreateArgs ==
    CHOOSE a \in CreateCalls \cup {UdfHandlerArgs(u) : u \in {v \in UdfCreateCalls : ~ConditionsMalformed(v)}} : a.objective = log[1].json.objective

\* C19: the creation request carries generator core and match_limit 10 when
\* the caller left them out, and otherwise the caller's generator and the
\* caller's match_limit, whatever its value.
C19_DefaultsAndNoValidation ==
    (Returned /\ called = "create_findall_run" /\ log # << >>) =>
        /\ log[1].json.generator =
              (IF CreateArgs.generator = None
               THEN "core" ELSE TheValue(CreateArgs.generator))
        /\ log[1].json.match_limit =
              (IF CreateArgs.match_limit = None
               THEN 10 ELSE TheValue(CreateArgs.match_limit))

\* C20: no call of enrich lets an exception through to its caller; and an
\* enrich whose output_schema the service refuses returns a failure whose
\* error is the HTTP status and body of that refusal.
C20_MalformedSchemaIsRemoteRejection ==
    /\ pc # "raised"
    /\ (/\ Returned
        /\ called = "enrich_findall"
        /\ log # << >>
        /\ ~log[1].json.output_schema.valid
        /\ RemoteRejection) =>
           /\ ~ret.success
           /\ ret.error = HttpErrorText(resp)

----------------------------------------------------------------------------
(* Further properties of wait_for_completion and of the requests *)

\* C21: a wait on a run created with match_limit L and never extended that
\* returns, after a poll saw the run inactive, the ResultSet made from the
\* service's answer, returns matched_count <= L: the number of matched
\* candidates of the run, however many candidates the run has evaluated.
C21_MatchedCountWithinLimit ==
    (/\ WaitReturned
     /\ waitExit = "results"
     /\ ret.success
     /\ status.is_active = Some(FALSE)
     /\ resp = ResultAnswer(findall_id)) =>
        /\ ret.matched_count <= jobs[findall_id].match_limit
        /\ ret.matched_count = NumMatched(jobs[findall_id].candidates)
        /\ ret.matched_count = Len(ret.candidates)

\* C21: the run has evaluated more candidates than its limit, as many of them
\* are matched as the limit allows, and the wait has returned exactly these
C21_Witness ==
    /\ WaitReturned
    /\ waitExit = "results"
    /\ ret.success
    /\ slept >= 1
    /\ ret.total_candidates = MinMatchLimit + 1
    /\ ret.matched_count = MinMatchLimit
    /\ jobs[findall_id].match_limit = MinMatchLimit

\* C22: every request any operation sends carries the x-api-key header with
\* the key the secret provider returned and the parallel-beta header, and is
\* the request of its operation: POST /runs for create, GET /runs/{id} for
\* status, GET /runs/{id}/result for results, POST /runs/{id}/extend,
\* /enrich and /cancel for the three job changes; a wait sends the status
\* and the results requests only.
C22_RequestsCarryHeadersAndPaths ==
    LET runs == "https://api.parallel.ai/v1beta/findall/runs"
        run == runs \o "/" \o findall_id
        expected ==
            CASE called = "create_findall_run" -> {<<"POST", runs>>}
              [] called = "get_findall_status" -> {<<"GET", run>>}
              [] called = "get_findall_results" -> {<<"GET", run \o "/result">>}
              [] called = "extend_findall" -> {<<"POST", run \o "/extend">>}
              [] called = "enrich_findall" -> {<<"POST", run \o "/enrich">>}
              [] called = "cancel_findall" -> {<<"POST", run \o "/cancel">>}
              [] called = "wait_for_completion" ->
                    {<<"GET", run>>, <<"GET", run \o "/result">>}
              [] OTHER -> {}
    IN  \A i \in 1..Len(log) :
           /\ snowflake = "module"
           /\ "x-api-key" \in DOMAIN log[i].headers
           /\ log[i].headers["x-api-key"] = "api_key secret"
           /\ "parallel-beta" \in DOMAIN log[i].headers
           /\ log[i].headers["parallel-beta"] = "findall-2025-09-15"
           /\ <<log[i].method, log[i].url>> \in expected

\* a wait on a run that a cancel request ended has sent its status and its
\* results request
C22_Witness ==
    /\ WaitReturned /\ waitExit = "results"
    /\ Len(log) >= 2
    /\ log[Len(log)].url = RunUrl(findall_id) \o "/result"
    /\ log[1].url = RunUrl(findall_id)
    /\ log[1].headers = log[Len(log)].headers
    /\ jobs[findall_id].status = "cancelled"

\* C23: nothing is retried.  A call of create_findall_run, get_findall_status,
\* get_findall_results, extend_findall, enrich_findall or cancel_findall has
\* sent at most one request when it returns, and a failed one returns its
\* failure from that call.  A wait sends one request per step and at most one
\* results request, the last of its requests; it sends a request after its
\* first only when the answer before was a 200 whose status envelope is a
\* success with is_active true, and after any failed request its next step
\* is the return of that failure, with nothing sent.
C23_NoAutomaticRetry ==
    /\ [](called \in {"create_findall_run", "get_findall_status", "get_findall_results",
                      "extend_findall", "enrich_findall", "cancel_findall"} =>
             /\ Len(log) <= 1
             /\ (Len(log) = 1 /\ ~TakesSuccessBranch(resp)) => ~ret.success)
    /\ [](called = "wait_for_completion" =>
             /\ Cardinality(ResultRequests(log)) <= 1
             /\ \A i \in ResultRequests(log) : i = Len(log) /\ ~InWait
             /\ pc # "idle" => Len(log) <= slept + 2)
    /\ [][(InWait /\ log' # log) =>
             /\ Len(log') = Len(log) + 1
             /\ Len(log) >= 1 =>
                   /\ TakesSuccessBranch(resp)
                   /\ Succeeded(status)
                   /\ log'[Len(log')].url = Url("status", findall_id) =>
                         GetOr(status, "is_active", None) = Some(TRUE)]_vars
    /\ [][(WaitRuns /\ Len(log) >= 1 /\ ~TakesSuccessBranch(resp)) =>
             /\ pc' = "done"
             /\ log' = log
             /\ ~ret'.success
             /\ ret' = FailureEnvelope(findall_id, resp)]_vars

\* a wait that slept, polled again and whose results request then failed has
\* returned that failure, every request sent once
C23_Witness ==
    /\ WaitReturned /\ waitExit = "results"
    /\ ~ret.success
    /\ slept >= 1
    /\ Len(log) = slept + 2
    /\ Cardinality(ResultRequests(log)) = 1

\* C24: the match_limit of a run the service holds changes only in a step of
\* extend_findall for that run whose request carried a positive
\* additional_match_limit, and then to the old limit plus that amount, a
\* strictly greater one, which the envelope reports as new_match_limit when
\* the service's answer comes back; an extend_findall with a non-positive
\* amount changes no run and, answered by the service, returns a failure; the
\* requests of extend_findall and enrich_findall carry no match conditions
\* and the enrich request no limit.
C24_MatchLimitOnlyRaisedByExtend ==
    /\ [][\A id \in JobIds :
             (jobs[id].status # "none" /\ jobs'[id].match_limit # jobs[id].match_limit) =>
                 /\ CallOf("extend_findall")
                 /\ findall_id' = id
                 /\ Len(log') = 1
                 /\ log'[1].url = Url("extend", id)
                 /\ log'[1].json.additional_match_limit > 0
                 /\ jobs'[id].match_limit =
                       jobs[id].match_limit + log'[1].json.additional_match_limit
                 /\ jobs'[id].match_limit > jobs[id].match_limit
                 /\ Delivered("extend") =>
                       /\ ret'.success
                       /\ ret'.new_match_limit = Some(jobs'[id].match_limit)]_vars
    /\ [][(/\ CallOf("extend_findall")
           /\ log' # << >>
           /\ log'[1].json.additional_match_limit <= 0) =>
                 /\ jobs' = jobs
                 /\ Delivered("extend") =>
                       /\ ~ret'.success
                       /\ "new_match_limit" \notin DOMAIN ret']_vars
    /\ [](\A i \in 1..Len(log) :
             /\ log[i].url = Url("extend", findall_id) =>
                   DOMAIN log[i].json = {"additional_match_limit"}
             /\ log[i].url = Url("enrich", findall_id) =>
                   DOMAIN log[i].json = {"processor", "output_schema"})

\* an extend_findall has raised the limit of a run from 5 to 10 after an
\* enrich_findall on that run had left it at 5
C24_Witness ==
    /\ Returned
    /\ called = "extend_findall"
    /\ ret.success
    /\ log[1].json.additional_match_limit = 5
    /\ ret.new_match_limit = Some(MinMatchLimit + 5)
    /\ jobs[findall_id].match_limit = MinMatchLimit + 5
    /\ jobs[findall_id].enrichments >= 1

\* C25: the handler checks nothing before it asks.  With the secret provider
\* working, a call of get_findall_status, get_findall_results,
\* extend_findall, enrich_findall or cancel_findall sends exactly one
\* request, the one of its operation for the id it was given, whether the
\* service holds no such run, an active one or a terminal one and whatever
\* the handler was called for and returned before; the service's 404 or 409
\* comes back as the failure envelope 'HTTP <code>: <body>' for that id.
C25_NoClientSidePrecondition ==
    [][\A m \in JobMethods \ {"wait_for_completion"} :
          (CallOf(m) /\ snowflake = "module") =>
              /\ Len(log') = 1
              /\ log'[1].url \in {Url(op, findall_id') : op \in RequestOps(m)}
              /\ resp'.kind # "none"
              /\ (resp'.kind = "http" /\ resp'.status_code \in {404, 409}) =>
                    /\ jobs' = jobs
                    /\ ~ret'.success
                    /\ ret'.error = "HTTP " \o ToString(resp'.status_code)
                                        \o ": " \o resp'.text
                    /\ ret'.findall_id = Some(findall_id')]_vars

\* a cancel_findall of a run that was cancelled already was sent all the
\* same and came back with the service's 409
C25_Witness ==
    /\ Returned
    /\ called = "cancel_findall"
    /\ Len(log) = 1
    /\ jobs[findall_id].status = "cancelled"
    /\ ~ret.success
    /\ ret.error = "HTTP 409: run is not active"

\* C26: a wait_for_completion called with max_wait <= 0 sends no request, not
\* for the status and not for the results, takes no time, and returns the
\* timeout envelope for that max_wait, also when the run is already terminal
\* and its results could be had.
C26_NoPollWithoutWaitTime ==
    (called = "wait_for_completion" /\ pc # "idle" /\ max_wait <= 0) =>
        /\ log = << >>
        /\ slept = 0
        /\ now = start_time
        /\ pc \in {"loop", "done"}
        /\ WaitReturned =>
              /\ waitExit = "timeout"
              /\ ret = [success |-> FALSE,
                        error |-> "Timeout after " \o ToString(max_wait) \o " seconds",
                        findall_id |-> Some(findall_id)]

\* the wait with max_wait 0 has returned its timeout although the run is
\* completed and has a matched candidate
C26_Witness ==
    /\ WaitReturned
    /\ max_wait = 0
    /\ log = << >>
    /\ ret.error = "Timeout after 0 seconds"
    /\ jobs[findall_id].status = "completed"
    /\ NumMatched(jobs[findall_id].candidates) >= 1

\* C27: the deadline is looked at only before a poll.  After a poll that saw
\* is_active true the wait sleeps the whole poll_interval, whether or not the
\* deadline has passed or passes meanwhile, and sends nothing; so a timeout
\* is returned at max_wait or later, but less than one request duration plus
\* one poll_interval later than the start of the last poll, which lay before
\* the deadline.  (That the run may be terminal by then is what the witness
\* reaches.)
C27_DeadlineCheckedAtLoopTopOnly ==
    /\ [][(WaitRuns /\ pc = "check" /\ Succeeded(status) /\ SeenActive(status)) =>
             /\ pc' = "loop"
             /\ now' = now + poll_interval
             /\ slept' = slept + 1
             /\ log' = log
             /\ ret' = ret]_vars
    /\ [][(WaitRuns /\ pc = "loop") =>
             /\ (now - start_time < max_wait) => pc' = "check"
             /\ (now - start_time >= max_wait) =>
                   /\ pc' = "done"
                   /\ waitExit' = "timeout"
                   /\ now' = now
                   /\ log' = log]_vars
    /\ [](WaitReturned /\ waitExit = "timeout" =>
             /\ now - start_time >= max_wait
             /\ max_wait <= 0 => now = start_time
             /\ max_wait > 0 =>
                   /\ SeenActive(status)
                   /\ now - start_time <= (max_wait - 1) + MaxDur + poll_interval
             /\ ResultRequests(log) = {})

\* a timeout returned a request duration and a poll interval after the last
\* poll, later than max_wait, for a run that finished after that poll: the
\* last status says active, the run is terminal, its results were not asked
C27_Witness ==
    /\ WaitReturned /\ waitExit = "timeout"
    /\ max_wait >= 1
    /\ poll_interval = MaxPoll
    /\ now - start_time = (max_wait - 1) + MaxDur + poll_interval
    /\ now - start_time > max_wait
    /\ status.is_active = Some(TRUE)
    /\ IsTerminal(jobs[findall_id])
    /\ ResultRequests(log) = {}

\* C28: a status answer of 200 whose body has no status object gives a
\* success envelope with is_active None, and the wait treats a successful
\* status whose is_active is None as it treats is_active false: its next
\* step is the one results request and the return of what
\* get_findall_results makes of the answer, without a sleep and without
\* another poll.
C28_MissingIsActiveEndsTheWait ==
    /\ [](pc = "check" /\ resp = Response(200, "{}", Some(EmptyDict)) =>
             /\ status.success
             /\ status.is_active = None
             /\ status.status = None)
    /\ [][(WaitRuns /\ pc = "check" /\ Succeeded(status) /\ status.is_active # Some(TRUE)) =>
             /\ pc' = "done"
             /\ waitExit' = "results"
             /\ slept' = slept
             /\ log' = Append(log, GetRequest("result", findall_id))
             /\ ret' = ResultsEnvelope(findall_id, resp')
             /\ status' = status]_vars

\* the wait returned the results of a run that is still running, after a
\* status answer without is_active
C28_Witness ==
    /\ WaitReturned /\ waitExit = "results"
    /\ status.success
    /\ status.is_active = None
    /\ IsActive(jobs[findall_id])
    /\ ret.success
    /\ Cardinality(ResultRequests(log)) = 1

----------------------------------------------------------------------------
(* Properties of the key lookup and of the defaults of create_findall_run *)

\* the message of the failed key lookup the handler's provider gives
LookupMessages ==
    IF snowflake = "None" THEN {"Snowflake module not initialized"}
    ELSE IF snowflake = "raising" THEN ProviderErrors ELSE {}

\* C29, as the specification states it: without a secret provider, or with
\* one whose lookup raises, no request is sent, every method returns a
\* failure envelope with the message of the lookup error, and
\* wait_for_completion returns the failed status envelope after its first
\* iteration, without a sleep.
C29_LookupFailureInEveryOperation ==
    snowflake # "module" =>
        /\ log = << >>
        /\ (Returned /\ called # "wait_for_completion") =>
              /\ ~ret.success
              /\ ret.error \in LookupMessages
        /\ WaitReturned =>
              /\ waitExit = "status_failed"
              /\ ret = status
              /\ ~ret.success
              /\ ret.error \in LookupMessages
              /\ slept = 0

\* C29, as the code has it: the same, for a wait_for_completion whose
\* max_wait is positive, so that it has a first iteration; called with
\* max_wait <= 0 it never comes to the lookup and returns the timeout
\* envelope.
C29_LookupFailureOnceAsked ==
    snowflake # "module" =>
        /\ log = << >>
        /\ (Returned /\ called # "wait_for_completion") =>
              /\ ~ret.success
              /\ ret.error \in LookupMessages
              /\ resp = Raised(ret.error)
        /\ (WaitReturned /\ max_wait > 0) =>
              /\ waitExit = "status_failed"
              /\ ret = status
              /\ ret = [success |-> FALSE, error |-> resp.msg,
                        findall_id |-> Some(findall_id)]
              /\ ret.error \in LookupMessages
              /\ slept = 0
              /\ now = start_time
        /\ (WaitReturned /\ max_wait <= 0) =>
              /\ waitExit = "timeout"
              /\ status = NoEnvelope
              /\ ret = TimeoutEnvelope(findall_id, max_wait)

\* with a provider that raises, a wait with time to poll has returned the
\* lookup's message from its first iteration
C29_Witness ==
    /\ snowflake = "raising"
    /\ WaitReturned
    /\ max_wait > 0
    /\ waitExit = "status_failed"
    /\ ret.error = "Secret api_key does not exist"
    /\ log = << >>
    /\ slept = 0

\* C30: create_findall_run sends the default for every falsy generator and
\* match_limit, not only for an absent one: generator '' goes out as 'core'
\* and match_limit 0 as 10, any other value as given; exclude_list and
\* metadata are in the request body exactly when they were given and are
\* not empty; and a request of the entry point create_findall_run holds the
\* five keys objective, entity_type, match_conditions, generator and
\* match_limit and nothing else.
C30_FalsyArgumentsTakeDefaults ==
    (Returned /\ called = "create_findall_run" /\ log # << >>) =>
        LET a == CreateArgs
            payload == log[1].json
        IN  /\ payload.generator =
                  (IF a.generator \in {None, Some("")}
                   THEN "core" ELSE TheValue(a.generator))
            /\ payload.match_limit =
                  (IF a.match_limit \in {None, Some(0)}
                   THEN 10 ELSE TheValue(a.match_limit))
            /\ ("exclude_list" \in DOMAIN payload) <=>
                  (a.exclude_list \notin {None, Some(<< >>)})
            /\ ("metadata" \in DOMAIN payload) <=>
                  (a.metadata \notin {None, Some(<< >>)})
            /\ "exclude_list" \in DOMAIN payload =>
                  Some(payload.exclude_list) = a.exclude_list
            /\ "metadata" \in DOMAIN payload =>
                  Some(payload.metadata) = a.metadata
            /\ payload.objective \in {u.objective : u \in UdfCreateCalls} =>
                  DOMAIN payload = {"objective", "entity_type", "match_conditions",
                                    "generator", "match_limit"}

\* the call with generator '', match_limit 0, exclude_list [] and metadata {}
\* created a run of limit 10 from a request with generator core and
\* without the two optional keys
C30_Witness ==
    /\ Returned /\ called = "create_findall_run"
    /\ log # << >>
    /\ log[1].json.objective = "climate funds"
    /\ log[1].json.generator = "core"
    /\ log[1].json.match_limit = 10
    /\ DOMAIN log[1].json = {"objective", "entity_type", "match_conditions",
                             "generator", "match_limit"}
    /\ ret.success
    /\ jobs["fa_1"].match_limit = 10

====
